---- MODULE Spec2Model ----
(***************************************************************************)
(* Model of the lyrics-plus providers ProviderIanz56 and ProviderApple:    *)
(* index cache (fetchIndex), song matching (normalize, findMatch,          *)
(* getSongInfo), word timing conversion (processWords,                     *)
(* convertToKaraokeFormat, parseJSON) and the facade findLyrics.           *)
(*                                                                         *)
(* Strings are sequences of code points.  The code point "E_ACUTE" /       *)
(* "e_acute" stands for the precomposed letter U+00C9 / U+00E9 and         *)
(* "acute" for the combining mark U+0301.                                  *)
(* ProviderIanz56 times are seconds in the source; here they are counted   *)
(* in half milliseconds, so that Math.round(x * 1000) really rounds.       *)
(* ProviderApple times are integer milliseconds, as in the source.         *)
(***************************************************************************)
EXTENDS Integers, Sequences, FiniteSets, TLC

VARIABLES
    clock,          \* Date.now(), in ms
    indexCache,     \* ProviderIanz56.indexCache
    lastIndexFetch, \* ProviderIanz56.lastIndexFetch
    cacheWriter,    \* history: which refresh wrote indexCache / lastIndexFetch
    nextRefresh,    \* history: number of the next fetchIndex() invocation
    calls,          \* concurrent fetchIndex() calls: position and locals
    provider,       \* which provider's findLyrics / converter is running
    info,           \* the query of the running findLyrics / findMatch
    pc,             \* position of the running operation
    now,            \* local `now` of fetchIndex inside findLyrics
    index,          \* local `index` (findLyrics) / search results (getSongInfo)
    match,          \* local `match`: position of the selected entry, 0 = none
    lyricsJson,     \* the raw payload handed to the converter
    parsed,         \* what the converter returned
    result,         \* the Result object of findLyrics
    issued,         \* collaborator requests issued by the running findLyrics
    failed,         \* history: collaborator failures met by the running findLyrics
    outcome         \* "pending" | "returned" | "raised"

vars == << clock, indexCache, lastIndexFetch, cacheWriter, nextRefresh, calls,
           provider, info, pc, now, index, match, lyricsJson, parsed, result,
           issued, failed, outcome >>

cacheVars == << clock, indexCache, lastIndexFetch, cacheWriter, nextRefresh, calls >>

lookupVars == << info, now, index, match, result, issued, failed, outcome >>

----------------------------------------------------------------------------
(* Bounds *)

MaxIndexLen == 2
MaxWords == 2
MaxTicks == 3
MaxCalls == 2

----------------------------------------------------------------------------
(* Strings *)

LowerChar(c) ==
    CASE c = "A" -> "a"
      [] c = "B" -> "b"
      [] c = "E_ACUTE" -> "e_acute"
      [] OTHER -> c

toLowerCase(s) == [i \in 1..Len(s) |-> LowerChar(s[i])]

IsSpace(c) == c = " "

IsWordChar(c) == c \in {"a", "b", "e", "o", "h", "i", "A", "B"}

IsCombining(c) == c = "acute"

RECURSIVE NFD(_)
NFD(s) ==
    IF s = <<>> THEN <<>>
    ELSE (IF Head(s) = "e_acute" THEN <<"e", "acute">>
          ELSE IF Head(s) = "E_ACUTE" THEN <<"E", "acute">>
          ELSE <<Head(s)>>) \o NFD(Tail(s))

RECURSIVE CollapseSpaces(_)
CollapseSpaces(s) ==
    IF Len(s) = 0 THEN <<>>
    ELSE IF IsSpace(Head(s))
         THEN IF Len(s) > 1 /\ IsSpace(s[2])
              THEN CollapseSpaces(Tail(s))
              ELSE <<" ">> \o CollapseSpaces(Tail(s))
         ELSE <<Head(s)>> \o CollapseSpaces(Tail(s))

RECURSIVE TrimStart(_)
TrimStart(s) ==
    IF s # <<>> /\ IsSpace(Head(s)) THEN TrimStart(Tail(s)) ELSE s

RECURSIVE TrimEnd(_)
TrimEnd(s) ==
    IF s # <<>> /\ IsSpace(s[Len(s)]) THEN TrimEnd(SubSeq(s, 1, Len(s) - 1)) ELSE s

trim(s) == TrimEnd(TrimStart(s))

normalize(s) ==
    IF s = <<>> THEN <<>>
    ELSE LET lowered == toLowerCase(s)
             decomposed == NFD(lowered)
             noMarks == SelectSeq(decomposed, LAMBDA c : ~IsCombining(c))
             noSpecial == SelectSeq(noMarks, LAMBDA c : IsWordChar(c) \/ IsSpace(c))
         IN  trim(CollapseSpaces(noSpecial))

includes(s, t) ==
    \E i \in 0..(Len(s) - Len(t)) : SubSeq(s, i + 1, i + Len(t)) = t

----------------------------------------------------------------------------
(* ProviderIanz56.findMatch *)

\* Array.prototype.find over the entries' test results: the position of the
\* first entry that passes, 0 when find returns undefined
FirstIndex(passes) ==
    IF \E i \in 1..Len(passes) : passes[i]
    THEN CHOOSE i \in 1..Len(passes) : passes[i] /\ \A j \in 1..(i - 1) : ~passes[j]
    ELSE 0

ExactTier(normalizedArtist, normalizedTitle, entry) ==
    /\ normalize(entry.artist) = normalizedArtist
    /\ normalize(entry.title) = normalizedTitle

PartialTier(normalizedArtist, normalizedTitle, entry) ==
    LET entryArtist == normalize(entry.artist)
        entryTitle == normalize(entry.title)
    IN  /\ entryArtist # <<>>
        /\ (includes(entryArtist, normalizedArtist) \/ includes(normalizedArtist, entryArtist))
        /\ (includes(entryTitle, normalizedTitle) \/ includes(normalizedTitle, entryTitle))

TitleTier(normalizedArtist, normalizedTitle, entry) ==
    LET entryArtist == normalize(entry.artist)
        entryTitle == normalize(entry.title)
    IN  IF entryArtist = <<>>
        THEN \/ entryTitle = normalizedTitle
             \/ includes(entryTitle, normalizedTitle)
             \/ includes(normalizedTitle, entryTitle)
        ELSE entryTitle = normalizedTitle

\* a matcher that takes the first entry satisfying any tier
findMatchSinglePass(artist, title, idx) ==
    LET normalizedArtist == normalize(artist)
        normalizedTitle == normalize(title)
    IN  FirstIndex([i \in 1..Len(idx) |->
                       \/ ExactTier(normalizedArtist, normalizedTitle, idx[i])
                       \/ PartialTier(normalizedArtist, normalizedTitle, idx[i])
                       \/ TitleTier(normalizedArtist, normalizedTitle, idx[i])])

findMatch(artist, title, idx) ==
    LET normalizedArtist == normalize(artist)
        normalizedTitle == normalize(title)
        exact == FirstIndex([i \in 1..Len(idx) |->
                               ExactTier(normalizedArtist, normalizedTitle, idx[i])])
        partial == FirstIndex([i \in 1..Len(idx) |->
                                 PartialTier(normalizedArtist, normalizedTitle, idx[i])])
        titleOnly == FirstIndex([i \in 1..Len(idx) |->
                                   TitleTier(normalizedArtist, normalizedTitle, idx[i])])
    IN  IF exact # 0 THEN exact
        ELSE IF partial # 0 THEN partial
        ELSE titleOnly

----------------------------------------------------------------------------
(* Shared helpers of the converters *)

Min(a, b) == IF a < b THEN a ELSE b

Max(a, b) == IF a > b THEN a ELSE b

\* Math.round(x * 1000) for x seconds given as h half milliseconds:
\* rounds to the nearest millisecond, halves towards +infinity.
Round(h) == (h + 1) \div 2

RECURSIVE StripLeadingParens(_)
StripLeadingParens(s) ==
    IF s # <<>> /\ Head(s) = "(" THEN StripLeadingParens(Tail(s)) ELSE s

RECURSIVE StripTrailingParens(_)
StripTrailingParens(s) ==
    IF s # <<>> /\ s[Len(s)] = ")"
    THEN StripTrailingParens(SubSeq(s, 1, Len(s) - 1))
    ELSE s

\* wordText.replace(/^[(]+|[)]+$/g, "")
StripParens(s) == StripTrailingParens(StripLeadingParens(s))

RECURSIVE Join(_)
Join(ss) == IF ss = <<>> THEN <<>> ELSE Head(ss) \o Join(Tail(ss))

\* Array.prototype.sort((a, b) => a.startTime - b.startTime): stable
RECURSIVE InsertByStart(_, _)
InsertByStart(sorted, x) ==
    IF sorted = <<>> THEN <<x>>
    ELSE IF sorted[Len(sorted)].startTime <= x.startTime
         THEN Append(sorted, x)
         ELSE Append(InsertByStart(SubSeq(sorted, 1, Len(sorted) - 1), x),
                     sorted[Len(sorted)])

RECURSIVE SortByStart(_)
SortByStart(seq) ==
    IF seq = <<>> THEN <<>>
    ELSE InsertByStart(SortByStart(SubSeq(seq, 1, Len(seq) - 1)), seq[Len(seq)])

----------------------------------------------------------------------------
(* ProviderIanz56.convertToKaraokeFormat *)

GapTolerance == 20   \* 0.01 s, in half milliseconds

\* a converter that drops the gaps instead of filling them
IanzSpacerDropped(begin, currentTime, isBackground) == <<>>

IanzSpacer(begin, currentTime, isBackground) ==
    IF begin > currentTime + GapTolerance
    THEN << [word |-> <<>>, time |-> Round(begin - currentTime),
             isBackground |-> isBackground] >>
    ELSE <<>>

IanzWordText(word, i, n, isBackground) ==
    LET sanitized == IF isBackground THEN StripParens(word.text) ELSE word.text
    IN  IF word.hasSpaceAfter /\ i < n THEN sanitized \o <<" ">> ELSE sanitized

RECURSIVE IanzProcessFrom(_, _, _, _)
IanzProcessFrom(words, i, currentTime, isBackground) ==
    IF i > Len(words) THEN <<>>
    ELSE IanzSpacer(words[i].begin, currentTime, isBackground)
         \o << [word |-> IanzWordText(words[i], i, Len(words), isBackground),
                time |-> Round(words[i].end - words[i].begin),
                isBackground |-> isBackground] >>
         \o IanzProcessFrom(words, i + 1, words[i].end, isBackground)

IanzProcessWords(words, lineStartTime, isBackground) ==
    IF Len(words) = 0 THEN <<>>
    ELSE IanzProcessFrom(words, 1, lineStartTime, isBackground)

\* a background cursor seeded at the background track's own first word
IanzBgSeedOwn(line, lineStartTime) == line.backgroundVocal[1].begin

IanzBgSeed(line, lineStartTime) == lineStartTime

IanzLineStart(line) ==
    LET mainStart == line.begin
        bgStart == IF Len(line.backgroundVocal) > 0
                   THEN line.backgroundVocal[1].begin ELSE mainStart
    IN  Min(mainStart, bgStart)

IanzLineEnd(line) ==
    IF Len(line.backgroundVocal) > 0
    THEN Max(line.end, line.backgroundVocal[Len(line.backgroundVocal)].end)
    ELSE line.end

\* The karaoke cue of one line.  `background: undefined` is the empty
\* sequence here: the source never stores an empty array in that field.
IanzCue(line) ==
    LET lineStartTime == IanzLineStart(line)
        mainWords == IanzProcessWords(line.words, lineStartTime, FALSE)
        backgroundWords ==
            IF Len(line.backgroundVocal) > 0
            THEN IanzProcessWords(line.backgroundVocal,
                                  IanzBgSeed(line, lineStartTime), TRUE)
            ELSE <<>>
    IN  [startTime |-> Round(lineStartTime),
         endTime |-> Round(IanzLineEnd(line)),
         text |-> mainWords,
         isBackground |-> Len(line.words) > 0
                          /\ \A k \in 1..Len(line.words) : line.words[k].isBackground,
         background |-> backgroundWords,
         originalText |-> line.translation]

IanzSynced(line) ==
    LET cue == IanzCue(line)
    IN  [startTime |-> cue.startTime,
         endTime |-> cue.endTime,
         text |-> IF line.translation # <<>> THEN line.translation ELSE line.text,
         originalText |-> IF line.translation # <<>> THEN line.text ELSE <<>>,
         background |-> cue.background]

\* lyricsJson.lines || []  followed by the per-line loop and the two sorts
convertToKaraokeFormat(json) ==
    LET lines == IF json.kind = "lines" THEN json.lines ELSE <<>>
    IN  [karaoke |-> SortByStart([k \in 1..Len(lines) |-> IanzCue(lines[k])]),
         synced |-> SortByStart([k \in 1..Len(lines) |-> IanzSynced(lines[k])])]

----------------------------------------------------------------------------
(* ProviderApple.parseJSON *)

AppleTolerance == 10   \* ms

AppleSpacer(wordStart, currentTime, isBackground) ==
    IF wordStart > currentTime + AppleTolerance
    THEN << [word |-> <<>>, time |-> wordStart - currentTime,
             isBackground |-> isBackground, startTime |-> currentTime] >>
    ELSE <<>>

AppleCleanWord(w) == IF ~w.part THEN w.text \o <<" ">> ELSE w.text

RECURSIVE AppleProcessFrom(_, _, _, _)
AppleProcessFrom(rawWords, i, currentTime, isBackground) ==
    IF i > Len(rawWords) THEN <<>>
    ELSE AppleSpacer(rawWords[i].timestamp, currentTime, isBackground)
         \o << [word |-> AppleCleanWord(rawWords[i]),
                time |-> rawWords[i].duration,
                isBackground |-> isBackground,
                startTime |-> rawWords[i].timestamp] >>
         \o AppleProcessFrom(rawWords, i + 1, rawWords[i].endtime, isBackground)

AppleProcessWords(rawWords, lineStartTime, isBackground) ==
    AppleProcessFrom(rawWords, 1, lineStartTime, isBackground)

AppleBgSeed(line) == line.timestamp

AppleTextStr(ws) == trim(Join([k \in 1..Len(ws) |-> AppleCleanWord(ws[k])]))

AppleCue(line) ==
    [startTime |-> line.timestamp,
     endTime |-> line.endtime,
     text |-> AppleProcessWords(line.text, line.timestamp, FALSE),
     isBackground |-> FALSE,
     background |-> IF Len(line.backgroundText) > 0
                    THEN AppleProcessWords(line.backgroundText, AppleBgSeed(line), TRUE)
                    ELSE <<>>]

AppleSynced(line) ==
    [startTime |-> line.timestamp,
     endTime |-> line.endtime,
     text |-> AppleTextStr(line.text),
     background |-> AppleCue(line).background]

AppleUnsyncedText(line) ==
    LET mainTextStr == AppleTextStr(line.text)
        bgTextStr == AppleTextStr(line.backgroundText)
    IN  IF bgTextStr # <<>>
        THEN mainTextStr \o <<" ", "(">> \o bgTextStr \o <<")">>
        ELSE mainTextStr

RECURSIVE AppleUnsynced(_)
AppleUnsynced(lines) ==
    IF lines = <<>> THEN <<>>
    ELSE (IF AppleUnsyncedText(Head(lines)) # <<>>
          THEN << [text |-> AppleUnsyncedText(Head(lines))] >>
          ELSE <<>>) \o AppleUnsynced(Tail(lines))

\* parseJSON on a payload whose content is an array of lines
parseJSON(json) ==
    LET lines == json.lines
        timed == json.type # "None"
    IN  [karaoke |-> IF timed THEN [k \in 1..Len(lines) |-> AppleCue(lines[k])] ELSE <<>>,
         synced |-> IF timed THEN [k \in 1..Len(lines) |-> AppleSynced(lines[k])] ELSE <<>>,
         unsynced |-> AppleUnsynced(lines)]

----------------------------------------------------------------------------
(* Inputs of the converters: raw lines of both payload shapes *)

IanzTimes == {0, 15, 36, 60}     \* half milliseconds

AppleTimes == {0, 8, 20}     \* milliseconds

SeqsUpTo(S, n) == UNION {[1..k -> S] : k \in 0..n}

IanzShapes ==
    { [text |-> <<"h", "i">>, hasSpaceAfter |-> TRUE, isBackground |-> FALSE],
      [text |-> <<"(", "o", ")">>, hasSpaceAfter |-> FALSE, isBackground |-> TRUE] }

IanzRawWords ==
    { [text |-> sh.text, begin |-> b, end |-> e,
       hasSpaceAfter |-> sh.hasSpaceAfter, isBackground |-> sh.isBackground] :
      sh \in IanzShapes, b \in IanzTimes, e \in IanzTimes }

\* words in temporal order, each with begin <= end
IanzOrdered(ws) ==
    /\ \A k \in 1..Len(ws) : ws[k].begin <= ws[k].end
    /\ \A k \in 1..(Len(ws) - 1) : ws[k].begin <= ws[k + 1].begin

IanzBgRawWords ==
    { w \in IanzRawWords : w.isBackground /\ ~w.hasSpaceAfter }

\* the background track of a line: absent/empty, or one word
IanzBgTracks == {<<>>} \cup { <<w>> : w \in {x \in IanzBgRawWords : x.begin <= x.end} }

IanzLine(b, e, tr, ws, bg) ==
    [begin |-> b, end |-> e, text |-> <<"h", "i">>, translation |-> tr,
     words |-> ws, backgroundVocal |-> bg]

\* main words lie within the line's bounds
IanzWellFormed(line) ==
    /\ line.begin <= line.end
    /\ IanzOrdered(line.words)
    /\ \A k \in 1..Len(line.words) :
          line.begin <= line.words[k].begin /\ line.words[k].end <= line.end

IanzFixedLine ==
    [begin |-> 15, end |-> 36, text |-> <<"a">>, translation |-> <<>>,
     words |-> <<>>, backgroundVocal |-> <<>>]

IanzPayload(ls) == [kind |-> "lines", lines |-> ls]

\* consistent: the payload's duration agrees with endtime - timestamp
AppleShapes ==
    { [text |-> <<"h", "i">>, part |-> FALSE, consistent |-> TRUE],
      [text |-> <<"o">>, part |-> TRUE, consistent |-> FALSE] }

\* duration is a field of its own in the payload
AppleRawWords ==
    { [text |-> sh.text, timestamp |-> b, endtime |-> e,
       duration |-> IF sh.consistent THEN e - b ELSE e - b + 5, part |-> sh.part] :
      sh \in AppleShapes, b \in AppleTimes, e \in AppleTimes }

AppleOrdered(ws) ==
    /\ \A k \in 1..Len(ws) : ws[k].timestamp <= ws[k].endtime
    /\ \A k \in 1..(Len(ws) - 1) : ws[k].timestamp <= ws[k + 1].timestamp

AppleBgTracks ==
    {<<>>} \cup { <<w>> : w \in {x \in AppleRawWords : x.timestamp <= x.endtime} }

AppleLine(b, e, ws, bg) ==
    [timestamp |-> b, endtime |-> e, text |-> ws, backgroundText |-> bg]

AppleWellFormed(line) ==
    /\ line.timestamp <= line.endtime
    /\ AppleOrdered(line.text)
    /\ \A k \in 1..Len(line.text) :
          line.timestamp <= line.text[k].timestamp /\ line.text[k].endtime <= line.endtime

ApplePayload(ty, ls) == [kind |-> "lines", type |-> ty, lines |-> ls]

----------------------------------------------------------------------------
(* Values of the variables an operation does not use *)

NoCache == [kind |-> "null", entries |-> <<>>]

NoInfo == [artist |-> <<>>, title |-> <<>>]

NoJson == [kind |-> "null", lines |-> <<>>]

NoParsed == [karaoke |-> <<>>, synced |-> <<>>]

NoResult == [provider |-> "none"]

----------------------------------------------------------------------------
(* Conversion of one payload: convertToKaraokeFormat / parseJSON *)

\* let indexCache = null; let lastIndexFetch = 0;
CacheInit ==
    /\ clock = 0 /\ indexCache = NoCache /\ lastIndexFetch = 0
    /\ cacheWriter = <<0, 0>> /\ nextRefresh = 1

ConvInit ==
    /\ CacheInit /\ calls = <<>>
    /\ info = NoInfo /\ now = 0 /\ index = NoCache /\ match = 0
    /\ result = NoResult /\ issued = {} /\ failed = {} /\ outcome = "pending"
    /\ parsed = NoParsed
    /\ pc = "convert"
    /\ \/ /\ provider = "ianz56"
          /\ \E b \in IanzTimes, e \in IanzTimes, tr \in {<<>>, <<"a">>},
                ws \in SeqsUpTo(IanzRawWords, MaxWords), bg \in IanzBgTracks,
                two \in BOOLEAN :
                /\ IanzWellFormed(IanzLine(b, e, tr, ws, bg))
                /\ lyricsJson = IanzPayload(IF two
                                            THEN <<IanzLine(b, e, tr, ws, bg), IanzFixedLine>>
                                            ELSE <<IanzLine(b, e, tr, ws, bg)>>)
       \/ /\ provider = "Apple Music"
          /\ \E b \in AppleTimes, e \in AppleTimes, ty \in {"Syllable", "None"},
                ws \in SeqsUpTo(AppleRawWords, MaxWords), bg \in AppleBgTracks :
                /\ AppleWellFormed(AppleLine(b, e, ws, bg))
                /\ lyricsJson = ApplePayload(ty, <<AppleLine(b, e, ws, bg)>>)

ConvertIanz ==
    /\ pc = "convert" /\ provider = "ianz56"
    /\ parsed' = convertToKaraokeFormat(lyricsJson)
    /\ pc' = "converted"
    /\ UNCHANGED << cacheVars, lookupVars, provider, lyricsJson >>

ConvertApple ==
    /\ pc = "convert" /\ provider = "Apple Music"
    /\ parsed' = parseJSON(lyricsJson)
    /\ pc' = "converted"
    /\ UNCHANGED << cacheVars, lookupVars, provider, lyricsJson >>

ConvNext == ConvertIanz \/ ConvertApple

SpecConv == ConvInit /\ [][ConvNext]_vars

----------------------------------------------------------------------------
(* Properties of the converters *)

Abs(x) == IF x < 0 THEN -x ELSE x

RECURSIVE SumTimes(_)
SumTimes(tokens) ==
    IF tokens = <<>> THEN 0 ELSE Head(tokens).time + SumTimes(Tail(tokens))

Converted(p) == pc = "converted" /\ provider = p

\* position of line k's cue after the stable sort by startTime
IanzRank(lines, k) ==
    1 + Cardinality({ j \in 1..Len(lines) :
            \/ Round(IanzLineStart(lines[j])) < Round(IanzLineStart(lines[k]))
            \/ Round(IanzLineStart(lines[j])) = Round(IanzLineStart(lines[k])) /\ j < k })

\* the gap in front of word i of a track whose cursor starts at seed
GapBefore(begins, ends, seed, i) ==
    begins[i] - (IF i = 1 THEN seed ELSE ends[i - 1])

NonOverlapping(begins, ends, seed) ==
    \A i \in 1..Len(begins) : GapBefore(begins, ends, seed, i) >= 0

RECURSIVE SkippedFrom(_, _, _, _, _)
SkippedFrom(begins, ends, seed, tol, i) ==
    IF i > Len(begins) THEN 0
    ELSE (IF GapBefore(begins, ends, seed, i) <= tol
          THEN GapBefore(begins, ends, seed, i) ELSE 0)
         + SkippedFrom(begins, ends, seed, tol, i + 1)

IanzBegins(ws) == [i \in 1..Len(ws) |-> ws[i].begin]

IanzEnds(ws) == [i \in 1..Len(ws) |-> ws[i].end]

AppleBegins(ws) == [i \in 1..Len(ws) |-> ws[i].timestamp]

AppleEnds(ws) == [i \in 1..Len(ws) |-> ws[i].endtime]

AppleConsistent(ws) ==
    \A i \in 1..Len(ws) : ws[i].duration = ws[i].endtime - ws[i].timestamp

\* C5 as stated: for every line whose main words are in temporal order,
\* non-overlapping and within the line's bounds, the durations of the tokens
\* processWords emits for the main track sum to lineEnd - lineStart of the
\* emitted cue within 10 ms.
C5_GapFillWholeLine ==
    /\ Converted("ianz56") =>
          \A k \in 1..Len(lyricsJson.lines) :
             LET line == lyricsJson.lines[k]
                 cue == parsed.karaoke[IanzRank(lyricsJson.lines, k)]
             IN  (/\ Len(line.words) > 0
                  /\ NonOverlapping(IanzBegins(line.words), IanzEnds(line.words),
                                    IanzLineStart(line)))
                 => Abs(SumTimes(cue.text) - (cue.endTime - cue.startTime)) <= 10
    /\ Converted("Apple Music") =>
          \A k \in 1..Len(parsed.karaoke) :
             LET line == lyricsJson.lines[k]
                 cue == parsed.karaoke[k]
             IN  (/\ Len(line.text) > 0
                  /\ AppleConsistent(line.text)
                  /\ NonOverlapping(AppleBegins(line.text), AppleEnds(line.text),
                                    line.timestamp))
                 => Abs(SumTimes(cue.text) - (cue.endTime - cue.startTime)) <= 10

\* C5 amended: for such a line the emitted main-track durations sum to
\* (end of the last word - lineStart) minus the gaps of at most 10 ms that
\* are left unfilled: within half a millisecond of rounding per emitted
\* token in ProviderIanz56, exactly in ProviderApple when every word's
\* duration field equals endtime - timestamp.  The time between the last
\* word's end and lineEnd is not filled.
C5_GapFillUpToLastWord ==
    /\ Converted("ianz56") =>
          \A k \in 1..Len(lyricsJson.lines) :
             LET line == lyricsJson.lines[k]
                 cue == parsed.karaoke[IanzRank(lyricsJson.lines, k)]
                 seed == IanzLineStart(line)
                 bs == IanzBegins(line.words)
                 es == IanzEnds(line.words)
             IN  (Len(line.words) > 0 /\ NonOverlapping(bs, es, seed))
                 => Abs(2 * SumTimes(cue.text)
                        - (es[Len(es)] - seed - SkippedFrom(bs, es, seed, 20, 1)))
                    <= Len(cue.text)
    /\ Converted("Apple Music") =>
          \A k \in 1..Len(parsed.karaoke) :
             LET line == lyricsJson.lines[k]
                 cue == parsed.karaoke[k]
                 seed == line.timestamp
                 bs == AppleBegins(line.text)
                 es == AppleEnds(line.text)
             IN  (/\ Len(line.text) > 0
                  /\ AppleConsistent(line.text)
                  /\ NonOverlapping(bs, es, seed))
                 => SumTimes(cue.text)
                    = es[Len(es)] - seed - SkippedFrom(bs, es, seed, 10, 1)

\* C5 witness: a converted ProviderIanz56 line of two non-overlapping words
\* with a filled gap between them and unfilled time after the last word.
C5_Witness ==
    /\ Converted("ianz56")
    /\ Len(lyricsJson.lines) = 1
    /\ LET line == lyricsJson.lines[1]
       IN  /\ Len(line.words) = 2
           /\ NonOverlapping(IanzBegins(line.words), IanzEnds(line.words),
                             IanzLineStart(line))
           /\ line.words[2].end < line.end
           /\ Len(parsed.karaoke[1].text) = 3
           /\ parsed.karaoke[1].text[2].word = <<>>

\* C9 as stated: for every line with a non-empty background word list the
\* first token of the emitted background sequence is the first background
\* word itself, never a spacer.
C9_BgStartsWithWord ==
    /\ Converted("ianz56") =>
          \A k \in 1..Len(lyricsJson.lines) :
             Len(lyricsJson.lines[k].backgroundVocal) > 0
             => parsed.karaoke[IanzRank(lyricsJson.lines, k)].background[1].word # <<>>
    /\ Converted("Apple Music") =>
          \A k \in 1..Len(parsed.karaoke) :
             Len(lyricsJson.lines[k].backgroundText) > 0
             => parsed.karaoke[k].background[1].word # <<>>

\* C9 amended: the background cursor is seeded at the line's start
\* (ProviderIanz56: min(line.begin, first background begin); ProviderApple:
\* line.timestamp).  The first emitted background token is a spacer of
\* length (first background begin - line start) exactly when that distance
\* exceeds 10 ms, and is the first background word otherwise.
C9_BgSeededAtLineStart ==
    /\ Converted("ianz56") =>
          \A k \in 1..Len(lyricsJson.lines) :
             LET line == lyricsJson.lines[k]
                 bg == parsed.karaoke[IanzRank(lyricsJson.lines, k)].background
                 gap == line.backgroundVocal[1].begin - IanzLineStart(line)
             IN  Len(line.backgroundVocal) > 0
                 => IF gap > 20
                    THEN /\ bg[1].word = <<>> /\ bg[1].time = Round(gap)
                         /\ bg[2].word = StripParens(line.backgroundVocal[1].text)
                    ELSE bg[1].word = StripParens(line.backgroundVocal[1].text)
    /\ Converted("Apple Music") =>
          \A k \in 1..Len(parsed.karaoke) :
             LET line == lyricsJson.lines[k]
                 bg == parsed.karaoke[k].background
                 gap == line.backgroundText[1].timestamp - line.timestamp
             IN  Len(line.backgroundText) > 0
                 => IF gap > 10
                    THEN /\ bg[1].word = <<>> /\ bg[1].time = gap
                         /\ bg[2].startTime = line.backgroundText[1].timestamp
                    ELSE bg[1].startTime = line.backgroundText[1].timestamp
                         /\ bg[1].word # <<>>

\* C9 witness: a converted line whose background vocals begin more than
\* 10 ms after the main line, so that the background track opens with a spacer.
C9_Witness ==
    /\ Converted("ianz56")
    /\ Len(lyricsJson.lines) = 1
    /\ Len(lyricsJson.lines[1].backgroundVocal) > 0
    /\ lyricsJson.lines[1].backgroundVocal[1].begin > lyricsJson.lines[1].begin + 20
    /\ parsed.karaoke[1].background[1].word = <<>>

----------------------------------------------------------------------------
(* Matching of one query against one index: findMatch *)

ArtistNames == { <<>>, <<"a">>, <<"A", "!", " ", "b">> }

TitleNames == { <<>>, <<"b">>, <<"a", "b">>, <<" ", "A", "B", "!">>, <<"E_ACUTE", " ", " ", "b">> }

Entries ==
    { [artist |-> a, title |-> t, jsonPath |-> "p"] : a \in ArtistNames, t \in TitleNames }

MatchInit ==
    /\ CacheInit /\ calls = <<>>
    /\ provider = "ianz56" /\ now = 0 /\ match = 0
    /\ lyricsJson = NoJson /\ parsed = NoParsed
    /\ result = NoResult /\ issued = {} /\ failed = {} /\ outcome = "pending"
    /\ pc = "match"
    /\ info \in [artist : ArtistNames, title : TitleNames]
    /\ \E es \in SeqsUpTo(Entries, MaxIndexLen) : index = [kind |-> "array", entries |-> es]

FindMatch ==
    /\ pc = "match"
    /\ match' = findMatch(info.artist, info.title, index.entries)
    /\ pc' = "matched"
    /\ UNCHANGED << cacheVars, provider, info, now, index, lyricsJson, parsed,
                    result, issued, failed, outcome >>

MatchNext == FindMatch

SpecMatch == MatchInit /\ [][MatchNext]_vars

IsExact(q, entry) ==
    /\ normalize(entry.artist) = normalize(q.artist)
    /\ normalize(entry.title) = normalize(q.title)

\* C6: if some entry of the index satisfies the exact tier (normalized artist
\* equal and normalized title equal), findMatch returns the first such entry
\* in index order, even when an entry matching only a weaker tier comes earlier.
C6_ExactTierFirst ==
    pc = "matched" =>
       \A i \in 1..Len(index.entries) :
          (/\ IsExact(info, index.entries[i])
           /\ \A j \in 1..(i - 1) : ~IsExact(info, index.entries[j]))
          => match = i

\* C6 witness: the second entry is the exact match and is returned although
\* the first entry satisfies the partial tier.
C6_Witness ==
    /\ pc = "matched"
    /\ Len(index.entries) = 2
    /\ ~IsExact(info, index.entries[1])
    /\ PartialTier(normalize(info.artist), normalize(info.title), index.entries[1])
    /\ IsExact(info, index.entries[2])
    /\ match = 2

----------------------------------------------------------------------------
(* ProviderIanz56.fetchIndex: the index cache *)

CACHE_DURATION == 5 * 60 * 1000

TickMs == 150000

\* what a fetch of index.json can deliver: an array of entries, some other
\* truthy JSON value, or (from response.json() only) null
IndexArray(es) == [kind |-> "array", entries |-> es]

IndexObject == [kind |-> "object", entries |-> <<>>]

Truthy(v) == v.kind # "null"

\* indexCache && now - lastIndexFetch < CACHE_DURATION
CacheHit(t) == Truthy(indexCache) /\ t - lastIndexFetch < CACHE_DURATION

\* a refresh that stores the value but not its timestamp
WriteCacheValueOnly(v, t, id) ==
    /\ indexCache' = v
    /\ lastIndexFetch' = lastIndexFetch
    /\ cacheWriter' = <<id, cacheWriter[2]>>

\* indexCache = response; lastIndexFetch = now;  (one synchronous run)
WriteCache(v, t, id) ==
    /\ indexCache' = v
    /\ lastIndexFetch' = t
    /\ cacheWriter' = <<id, id>>

Tick ==
    /\ clock + TickMs <= MaxTicks * TickMs
    /\ clock' = clock + TickMs
    /\ UNCHANGED << indexCache, lastIndexFetch, cacheWriter, nextRefresh, calls,
                    provider, pc, lookupVars, lyricsJson, parsed >>

----------------------------------------------------------------------------
(* Concurrent calls of the exported fetchIndex *)

Callers == 1..MaxCalls

MaxRefreshes == 3

IdleCall ==
    [pc |-> "idle", now |-> 0, id |-> 0, path |-> "none",
     seenWriter |-> <<0, 0>>, seenStamp |-> 0, ret |-> NoCache]

RemoteIndexes ==
    { IndexArray(<<>>),
      IndexArray(<< [artist |-> <<"a">>, title |-> <<"a", "b">>, jsonPath |-> "p"] >>),
      IndexObject }

CacheSpecInit ==
    /\ CacheInit
    /\ calls = [c \in Callers |-> IdleCall]
    /\ provider = "ianz56" /\ pc = "fetchIndex"
    /\ info = NoInfo /\ now = 0 /\ index = NoCache /\ match = 0
    /\ lyricsJson = NoJson /\ parsed = NoParsed
    /\ result = NoResult /\ issued = {} /\ failed = {} /\ outcome = "pending"

\* const now = Date.now(); the cache test; the first request
CallFetchIndex(c) ==
    /\ calls[c].pc = "idle"
    /\ nextRefresh <= MaxRefreshes
    /\ nextRefresh' = nextRefresh + 1
    /\ IF CacheHit(clock)
       THEN calls' = [calls EXCEPT ![c] =
                        [pc |-> "done", now |-> clock, id |-> nextRefresh,
                         path |-> "cached", seenWriter |-> cacheWriter,
                         seenStamp |-> lastIndexFetch, ret |-> indexCache]]
       ELSE calls' = [calls EXCEPT ![c] =
                        [IdleCall EXCEPT !.pc = "cosmos", !.now = clock,
                                         !.id = nextRefresh]]
    /\ UNCHANGED << clock, indexCache, lastIndexFetch, cacheWriter,
                    provider, pc, lookupVars, lyricsJson, parsed >>

\* await Spicetify.CosmosAsync.get(INDEX_URL) delivers a truthy response
CosmosIndexOk(c, v) ==
    /\ calls[c].pc = "cosmos"
    /\ Truthy(v)
    /\ WriteCache(v, calls[c].now, calls[c].id)
    /\ calls' = [calls EXCEPT ![c].pc = "done", ![c].path = "fetched", ![c].ret = v]
    /\ UNCHANGED << clock, nextRefresh, provider, pc, lookupVars, lyricsJson, parsed >>

\* CosmosAsync.get throws or delivers a falsy response: fall back to fetch
CosmosIndexFail(c) ==
    /\ calls[c].pc = "cosmos"
    /\ calls' = [calls EXCEPT ![c].pc = "fetch"]
    /\ UNCHANGED << clock, indexCache, lastIndexFetch, cacheWriter, nextRefresh,
                    provider, pc, lookupVars, lyricsJson, parsed >>

\* fetch resolves with an OK response and response.json() delivers v
FetchIndexOk(c, v) ==
    /\ calls[c].pc = "fetch"
    /\ WriteCache(v, calls[c].now, calls[c].id)
    /\ calls' = [calls EXCEPT ![c].pc = "done", ![c].path = "fetched", ![c].ret = v]
    /\ UNCHANGED << clock, nextRefresh, provider, pc, lookupVars, lyricsJson, parsed >>

\* fetch rejects, the response is not OK, or response.json() rejects
FetchIndexFail(c) ==
    /\ calls[c].pc = "fetch"
    /\ calls' = [calls EXCEPT ![c].pc = "done", ![c].path = "failed"]
    /\ UNCHANGED << clock, indexCache, lastIndexFetch, cacheWriter, nextRefresh,
                    provider, pc, lookupVars, lyricsJson, parsed >>

\* the caller takes the settled promise; the slot is free for another call
ReturnIndex(c) ==
    /\ calls[c].pc = "done"
    /\ calls' = [calls EXCEPT ![c] = IdleCall]
    /\ UNCHANGED << clock, indexCache, lastIndexFetch, cacheWriter, nextRefresh,
                    provider, pc, lookupVars, lyricsJson, parsed >>

CacheNext ==
    \/ Tick
    \/ \E c \in Callers : CallFetchIndex(c)
    \/ \E c \in Callers, v \in RemoteIndexes : CosmosIndexOk(c, v)
    \/ \E c \in Callers : CosmosIndexFail(c)
    \/ \E c \in Callers, v \in RemoteIndexes \cup {NoCache} : FetchIndexOk(c, v)
    \/ \E c \in Callers : FetchIndexFail(c)
    \/ \E c \in Callers : ReturnIndex(c)

SpecCache == CacheSpecInit /\ [][CacheNext]_vars

\* C8: no call observes a partially written cache entry.  The pair
\* (indexCache, lastIndexFetch) is always the work of one refresh, a call that
\* takes the cached path read a pair written by a single refresh, and it
\* served the cache only when lastIndexFetch was less than 5 minutes before
\* the call's start.
C8_CachePairWhole ==
    /\ cacheWriter[1] = cacheWriter[2]
    /\ \A c \in DOMAIN calls :
          calls[c].path = "cached" =>
             /\ calls[c].seenWriter[1] = calls[c].seenWriter[2]
             /\ calls[c].seenWriter[1] # 0
             /\ calls[c].now - calls[c].seenStamp < 5 * 60 * 1000
             /\ Truthy(calls[c].ret)

\* C8 witness: a call was served from the cache while another call's
\* refresh is still in flight.
C8_Witness ==
    /\ pc = "fetchIndex"
    /\ \E c, d \in DOMAIN calls :
          /\ calls[c].path = "cached"
          /\ calls[c].now > calls[c].seenStamp
          /\ calls[d].pc \in {"cosmos", "fetch"}

\* C10: the cache timestamp lastIndexFetch never decreases.
C10_StampMonotonic == [][lastIndexFetch' >= lastIndexFetch]_vars

----------------------------------------------------------------------------
(* findLyrics of both providers, one invocation at a time *)

Null == [isNull |-> TRUE, v |-> <<>>]

Some(v) == [isNull |-> FALSE, v |-> v]

\* karaoke.length > 0 ? karaoke : null
NonEmptyOrNull(seq) == IF Len(seq) > 0 THEN Some(seq) ELSE Null

NoError == [isNull |-> TRUE, v |-> ""]

Err(msg) == [isNull |-> FALSE, v |-> msg]

NewResult(p) ==
    [provider |-> p, karaoke |-> Null, synced |-> Null, unsynced |-> Null,
     copyright |-> Null, error |-> NoError]

IanzError == "Request error or lyrics not found"

Queries == [artist : {<<>>, <<"a">>}, title : {<<>>, <<" ">>, <<"a", "b">>}]

EntryA == [artist |-> <<"a">>, title |-> <<"a", "b">>, jsonPath |-> "p"]

EntryNoPath == [artist |-> <<>>, title |-> <<"b">>, jsonPath |-> ""]

EntryB == [artist |-> <<"b">>, title |-> <<"b">>, jsonPath |-> "p"]

LookupIndexes ==
    { IndexArray(<<>>), IndexArray(<<EntryA>>), IndexArray(<<EntryB>>),
      IndexArray(<<EntryNoPath, EntryA>>), IndexObject }

LineA ==
    [begin |-> 36, end |-> 60, text |-> <<"h", "i">>, translation |-> <<>>,
     words |-> << [text |-> <<"h", "i">>, begin |-> 36, end |-> 60,
                   hasSpaceAfter |-> FALSE, isBackground |-> FALSE] >>,
     backgroundVocal |-> <<>>]

\* what a fetch of a lyrics file can deliver to ProviderIanz56
IanzLyricsValues ==
    { [kind |-> "noLines", lines |-> <<>>],       \* truthy, without `lines`
      [kind |-> "badLines", lines |-> <<>>],      \* `lines` truthy, not an array
      IanzPayload(<<>>),
      IanzPayload(<<LineA>>),
      IanzPayload(<<LineA, IanzFixedLine>>) }

\* catch (e): result.error = "Request error or lyrics not found"; return result
IanzCatch(res) ==
    /\ result' = [res EXCEPT !.error = Err(IanzError)]
    /\ pc' = "done"
    /\ outcome' = "returned"

\* a lookup that fetches the payload of entry 1 when nothing matched
IanzAfterIndexNoCheck(q, res, iss, fl, idx) ==
    /\ index' = idx
    /\ IF idx.kind # "array"
       THEN /\ match' = 0 /\ issued' = iss /\ failed' = fl \cup {"index"}
            /\ IanzCatch(res)
       ELSE /\ match' = findMatch(q.artist, q.title, idx.entries)
            /\ failed' = fl
            /\ issued' = iss \cup {"payload"}
            /\ result' = res /\ pc' = "cosmosLyrics" /\ outcome' = "pending"

\* findLyrics from the settled fetchIndex() to the request of the payload
IanzAfterIndex(q, res, iss, fl, idx) ==
    /\ index' = idx
    /\ IF idx.kind # "array"
       THEN /\ match' = 0 /\ issued' = iss /\ failed' = fl \cup {"index"}
            /\ IanzCatch(res)
       ELSE LET m == findMatch(q.artist, q.title, idx.entries)
            IN  /\ match' = m
                /\ failed' = fl
                /\ IF m = 0 \/ idx.entries[m].jsonPath = ""
                   THEN issued' = iss /\ IanzCatch(res)
                   ELSE /\ issued' = iss \cup {"payload"}
                        /\ result' = res /\ pc' = "cosmosLyrics" /\ outcome' = "pending"

\* findLyrics(info) of ProviderIanz56 up to its first suspension
IanzFindLyrics(q) ==
    /\ pc = "idle"
    /\ provider' = "ianz56" /\ info' = q /\ now' = clock
    /\ lyricsJson' = NoJson /\ parsed' = NoParsed
    /\ IF CacheHit(clock)
       THEN IanzAfterIndex(q, NewResult("ianz56"), {}, {}, indexCache)
       ELSE /\ pc' = "cosmosIndex" /\ issued' = {"index"} /\ failed' = {}
            /\ result' = NewResult("ianz56") /\ outcome' = "pending"
            /\ index' = NoCache /\ match' = 0
    /\ UNCHANGED cacheVars

IanzCosmosIndexOk(v) ==
    /\ pc = "cosmosIndex" /\ Truthy(v)
    /\ WriteCache(v, now, nextRefresh)
    /\ nextRefresh' = nextRefresh
    /\ IanzAfterIndex(info, result, issued, failed, v)
    /\ UNCHANGED << clock, calls, provider, info, now, lyricsJson, parsed >>

IanzCosmosIndexFail ==
    /\ pc = "cosmosIndex"
    /\ pc' = "fetchIndex"
    /\ UNCHANGED << cacheVars, provider, lookupVars, lyricsJson, parsed >>

IanzFetchIndexOk(v) ==
    /\ pc = "fetchIndex"
    /\ WriteCache(v, now, nextRefresh)
    /\ nextRefresh' = nextRefresh
    /\ IanzAfterIndex(info, result, issued, failed, v)
    /\ UNCHANGED << clock, calls, provider, info, now, lyricsJson, parsed >>

IanzFetchIndexFail ==
    /\ pc = "fetchIndex"
    /\ failed' = failed \cup {"index"}
    /\ IanzCatch(result)
    /\ UNCHANGED << cacheVars, provider, info, now, index, match, issued,
                    lyricsJson, parsed >>

\* findLyrics from the settled fetchLyricsJson() to its return
IanzAfterLyrics(json) ==
    /\ lyricsJson' = json
    /\ IF json.kind \in {"null", "badLines"}
       THEN /\ parsed' = parsed /\ failed' = failed \cup {"malformed"}
            /\ IanzCatch(result)
       ELSE LET converted == convertToKaraokeFormat(json)
            IN  /\ parsed' = converted
                /\ failed' = IF json.kind = "noLines"
                             THEN failed \cup {"malformed"} ELSE failed
                /\ result' = [result EXCEPT
                                !.karaoke = NonEmptyOrNull(converted.karaoke),
                                !.synced = NonEmptyOrNull(converted.synced),
                                !.unsynced = NonEmptyOrNull(converted.synced)]
                /\ pc' = "done" /\ outcome' = "returned"

IanzCosmosLyricsOk(json) ==
    /\ pc = "cosmosLyrics" /\ Truthy(json)
    /\ IanzAfterLyrics(json)
    /\ UNCHANGED << cacheVars, provider, info, now, index, match, issued >>

IanzCosmosLyricsFail ==
    /\ pc = "cosmosLyrics"
    /\ pc' = "fetchLyrics"
    /\ UNCHANGED << cacheVars, provider, lookupVars, lyricsJson, parsed >>

IanzFetchLyricsOk(json) ==
    /\ pc = "fetchLyrics"
    /\ IanzAfterLyrics(json)
    /\ UNCHANGED << cacheVars, provider, info, now, index, match, issued >>

IanzFetchLyricsFail ==
    /\ pc = "fetchLyrics"
    /\ failed' = failed \cup {"payload"}
    /\ IanzCatch(result)
    /\ UNCHANGED << cacheVars, provider, info, now, index, match, issued,
                    lyricsJson, parsed >>

----------------------------------------------------------------------------
(* ProviderApple: getSongInfo, getSyncedLyrics, findLyrics *)

CandidateA == [trackName |-> <<"A", "b">>, artistName |-> <<"a">>, hasId |-> TRUE]

CandidateB == [trackName |-> <<"b">>, artistName |-> <<"B">>, hasId |-> TRUE]

CandidateNoId == [trackName |-> <<"b">>, artistName |-> <<"B">>, hasId |-> FALSE]

SearchResults ==
    { <<>>, <<CandidateA>>, <<CandidateB, CandidateA>>, <<CandidateNoId>> }

AppleLineA ==
    [timestamp |-> 0, endtime |-> 20,
     text |-> << [text |-> <<"h", "i">>, timestamp |-> 0, endtime |-> 8,
                  duration |-> 8, part |-> FALSE] >>,
     backgroundText |-> <<>>]

AppleLineNoText ==
    [timestamp |-> 0, endtime |-> 20, text |-> <<>>, backgroundText |-> <<>>]

\* what getSyncedLyrics can deliver: a JSON value without usable `content`,
\* one whose `content` is truthy but not an array, or an array of lines
AppleLyricsValues ==
    { [kind |-> "noContent", type |-> "Syllable", lines |-> <<>>],
      [kind |-> "badContent", type |-> "Syllable", lines |-> <<>>] }
    \cup { ApplePayload(ty, ls) : ty \in {"Syllable", "None"},
                                   ls \in {<<>>, <<AppleLineA>>, <<AppleLineNoText>>} }

\* the candidate getSongInfo selects from a non-empty result list
getSongInfoMatch(q, results) ==
    LET normalizedTitle == trim(toLowerCase(q.title))
        normalizedArtist == trim(toLowerCase(q.artist))
        exact == FirstIndex([i \in 1..Len(results) |->
                    /\ trim(toLowerCase(results[i].trackName)) = normalizedTitle
                    /\ includes(toLowerCase(results[i].artistName), normalizedArtist)])
    IN  IF exact # 0 THEN exact ELSE 1

AppleReturn(res, msg) ==
    /\ result' = [res EXCEPT !.error = Err(msg)]
    /\ pc' = "done"
    /\ outcome' = "returned"

\* findLyrics(info) of ProviderApple up to its first suspension
AppleFindLyrics(q) ==
    /\ pc = "idle"
    /\ provider' = "Apple Music" /\ info' = q /\ now' = now
    /\ lyricsJson' = NoJson /\ parsed' = NoParsed
    /\ index' = NoCache /\ match' = 0 /\ failed' = {}
    /\ IF trim(q.artist \o <<" ">> \o q.title) = <<>>
       THEN issued' = {} /\ AppleReturn(NewResult("Apple Music"), "Song not found")
       ELSE /\ issued' = {"search"} /\ pc' = "search"
            /\ result' = NewResult("Apple Music") /\ outcome' = "pending"
    /\ UNCHANGED cacheVars

\* the search rejects, is not OK or does not parse: getSongInfo returns null
AppleSearchFail ==
    /\ pc = "search"
    /\ failed' = failed \cup {"search"}
    /\ AppleReturn(result, "Song not found")
    /\ UNCHANGED << cacheVars, provider, info, now, index, match, issued,
                    lyricsJson, parsed >>

\* the search delivers data.results
AppleSearchOk(results) ==
    /\ pc = "search"
    /\ index' = IndexArray(results)
    /\ IF Len(results) = 0
       THEN match' = 0 /\ issued' = issued /\ AppleReturn(result, "Song not found")
       ELSE LET m == getSongInfoMatch(info, results)
            IN  /\ match' = m
                /\ IF ~results[m].hasId
                   THEN issued' = issued /\ AppleReturn(result, "Song not found")
                   ELSE /\ issued' = issued \cup {"payload"} /\ pc' = "lyrics"
                        /\ result' = result /\ outcome' = "pending"
    /\ UNCHANGED << cacheVars, provider, info, now, failed, lyricsJson, parsed >>

\* the lyrics request rejects, is not OK or delivers nothing
AppleLyricsFail ==
    /\ pc = "lyrics"
    /\ failed' = failed \cup {"payload"}
    /\ AppleReturn(result, "No lyrics found")
    /\ UNCHANGED << cacheVars, provider, info, now, index, match, issued,
                    lyricsJson, parsed >>

\* findLyrics of ProviderApple after parseJSON
AppleAfterParse(res, p) ==
    IF Len(p.karaoke) = 0 /\ Len(p.synced) = 0 /\ Len(p.unsynced) = 0
    THEN AppleReturn(res, "Empty lyrics")
    ELSE /\ result' = [res EXCEPT
                         !.karaoke = NonEmptyOrNull(p.karaoke),
                         !.synced = NonEmptyOrNull(p.synced),
                         !.unsynced = IF Len(p.unsynced) > 0 THEN Some(p.unsynced)
                                      ELSE NonEmptyOrNull(p.synced)]
         /\ pc' = "done" /\ outcome' = "returned"

\* the lyrics request delivers a JSON value
AppleLyricsOk(data) ==
    /\ pc = "lyrics"
    /\ lyricsJson' = data
    /\ CASE data.kind = "noContent" ->
               /\ parsed' = parsed /\ failed' = failed \cup {"malformed"}
               /\ AppleReturn(result, "Invalid lyrics format")
         [] data.kind = "badContent" ->
               /\ parsed' = parsed /\ failed' = failed \cup {"malformed"}
               /\ AppleReturn(result, "Request error")
         [] OTHER ->
               /\ parsed' = parseJSON(data) /\ failed' = failed
               /\ AppleAfterParse(result, parseJSON(data))
    /\ UNCHANGED << cacheVars, provider, info, now, index, match, issued >>

----------------------------------------------------------------------------
(* The lookups, one after the other, sharing the index cache *)

LookupInit ==
    /\ CacheInit /\ calls = <<>>
    /\ provider = "none" /\ pc = "idle"
    /\ info = NoInfo /\ now = 0 /\ index = NoCache /\ match = 0
    /\ lyricsJson = NoJson /\ parsed = NoParsed
    /\ result = NoResult /\ issued = {} /\ failed = {} /\ outcome = "pending"

\* the caller takes the Result; the next lookup may start
TakeResult ==
    /\ pc = "done"
    /\ pc' = "idle" /\ provider' = "none"
    /\ info' = NoInfo /\ now' = 0 /\ index' = NoCache /\ match' = 0
    /\ lyricsJson' = NoJson /\ parsed' = NoParsed
    /\ result' = NoResult /\ issued' = {} /\ failed' = {} /\ outcome' = "pending"
    /\ UNCHANGED cacheVars

Next ==
    \/ Tick
    \/ \E q \in Queries : IanzFindLyrics(q)
    \/ \E v \in LookupIndexes : IanzCosmosIndexOk(v)
    \/ IanzCosmosIndexFail
    \/ \E v \in LookupIndexes \cup {NoCache} : IanzFetchIndexOk(v)
    \/ IanzFetchIndexFail
    \/ \E j \in IanzLyricsValues : IanzCosmosLyricsOk(j)
    \/ IanzCosmosLyricsFail
    \/ \E j \in IanzLyricsValues \cup {NoJson} : IanzFetchLyricsOk(j)
    \/ IanzFetchLyricsFail
    \/ \E q \in Queries : AppleFindLyrics(q)
    \/ AppleSearchFail
    \/ \E rs \in SearchResults : AppleSearchOk(rs)
    \/ AppleLyricsFail
    \/ \E d \in AppleLyricsValues : AppleLyricsOk(d)
    \/ TakeResult

Spec == LookupInit /\ [][Next]_vars

----------------------------------------------------------------------------
(* Properties of findLyrics *)

Done == pc = "done"

ContentNull == result.karaoke.isNull /\ result.synced.isNull /\ result.unsynced.isNull

\* the lookup ran on an index / a result list and selected nothing
NoMatchFound == provider # "none" /\ index.kind = "array" /\ match = 0

\* C1: in every Result returned by findLyrics of either provider, error is
\* non-null if and only if karaoke, synced and unsynced are all null.
C1_ErrorIffNoContent ==
    Done => (~result.error.isNull <=> ContentNull)

\* C2: findLyrics never raises, and after any failure of a collaborator
\* (index fetch, search, payload fetch, absent or malformed payload) it
\* returns a Result whose error is non-null and whose content is all null.
C2_NeverRaises ==
    /\ outcome # "raised"
    /\ Done => outcome = "returned"
    /\ (Done /\ failed # {}) => (~result.error.isNull /\ ContentNull)

C4_EmptyLyrics ==
    (Done /\ lyricsJson.kind = "lines" /\ Len(lyricsJson.lines) = 0) =>
       /\ ContentNull
       /\ ~result.error.isNull
       /\ provider = "Apple Music" => result.error.v = "Empty lyrics"

\* C7: for a query whose title or artist is empty or normalizes to empty, no
\* index entry or search candidate is selected, no payload is fetched and the
\* Result carries no content.
C7_QueryValidated ==
    (provider # "none" /\ (normalize(info.title) = <<>> \/ normalize(info.artist) = <<>>)) =>
       /\ match = 0
       /\ "payload" \notin issued
       /\ ContentNull

====
